---- MODULE Spec2Model ----
(***************************************************************************)
(* Model of scripts/update_car_prices.py: the price backfill procedure.    *)
(* Strings are sequences of one-character strings so that lower(), strip(),*)
(* isdigit(), int() and str() are computed, not assumed.  A JSON object    *)
(* whose key order matters (the year bucket) is a sequence of entries; the *)
(* other JSON objects are functions from keys to values.                   *)
(***************************************************************************)
EXTENDS Integers, Sequences, FiniteSets, TLC

VARIABLES
    cars_file,      \* content of cars.json on storage
    stats_file,     \* content of market_stats.json on storage
    cars,           \* the loaded catalog, mutated in place
    stats,          \* the loaded statistics table
    idx,            \* position of the for-loop (1-based index of the next car)
    updated_count,
    missing_count,
    pc,             \* "start", "loop", "done", "aborted"
    run,            \* "first" or "second" invocation of the script
    writes,         \* number of times this invocation wrote cars.json
    input,          \* the catalog as read by the current invocation
    exc,            \* the exception that ended the invocation, or "none"
    first           \* what the first invocation reported and wrote

vars == <<cars_file, stats_file, cars, stats, idx, updated_count,
          missing_count, pc, run, writes, input, exc, first>>

----------------------------------------------------------------------------
(* Bounds of the model *)

MaxCars == 2      \* longest catalog
MaxYears == 2     \* most year keys in one fuel bucket

----------------------------------------------------------------------------
(* Python built-ins used by the script *)

Digits == {"0", "1", "2", "3", "4", "5", "6", "7", "8", "9"}

DigitVal(c) ==
    CASE c = "0" -> 0 [] c = "1" -> 1 [] c = "2" -> 2 [] c = "3" -> 3
      [] c = "4" -> 4 [] c = "5" -> 5 [] c = "6" -> 6 [] c = "7" -> 7
      [] c = "8" -> 8 [] c = "9" -> 9

DigitChar(d) ==
    CASE d = 0 -> "0" [] d = 1 -> "1" [] d = 2 -> "2" [] d = 3 -> "3"
      [] d = 4 -> "4" [] d = 5 -> "5" [] d = 6 -> "6" [] d = 7 -> "7"
      [] d = 8 -> "8" [] d = 9 -> "9"

\* str.lower() on the letters that occur in the modelled data
LowerChar(c) ==
    CASE c = "F" -> "f" [] c = "B" -> "b" [] c = "M" -> "m" [] c = "W" -> "w"
      [] c = "P" -> "p" [] OTHER -> c

lower(s) == [i \in 1..Len(s) |-> LowerChar(s[i])]

RECURSIVE lstrip(_)
lstrip(s) == IF Len(s) > 0 /\ Head(s) = " " THEN lstrip(Tail(s)) ELSE s

RECURSIVE rstrip(_)
rstrip(s) ==
    IF Len(s) > 0 /\ s[Len(s)] = " " THEN rstrip(SubSeq(s, 1, Len(s) - 1)) ELSE s

strip(s) == rstrip(lstrip(s))

\* str.isdigit(): at least one character and all of them digits
isdigit(s) == Len(s) > 0 /\ \A i \in 1..Len(s) : s[i] \in Digits

RECURSIVE ParseDigits(_)
ParseDigits(s) ==
    IF Len(s) = 0 THEN 0
    ELSE ParseDigits(SubSeq(s, 1, Len(s) - 1)) * 10 + DigitVal(s[Len(s)])

RECURSIVE StrNat(_)
StrNat(n) == IF n < 10 THEN <<DigitChar(n)>>
             ELSE Append(StrNat(n \div 10), DigitChar(n % 10))

\* str(n) for an integer n
str(n) == IF n < 0 THEN <<"-">> \o StrNat(0 - n) ELSE StrNat(n)

\* A JSON scalar is [t |-> "int", v |-> n] or [t |-> "str", v |-> chars].
\* int(x): ok = FALSE stands for ValueError.
int(x) ==
    IF x.t = "int" THEN [ok |-> TRUE, v |-> x.v]
    ELSE LET s == strip(x.v)
         IN  IF isdigit(s) THEN [ok |-> TRUE, v |-> ParseDigits(s)]
             ELSE [ok |-> FALSE, v |-> 0]

abs(n) == IF n < 0 THEN 0 - n ELSE n

\* a bug that would round a half up
round_half_up(n) == (n + 50) \div 100

\* round(n / 100.0): nearest integer, a half goes to the even neighbour
round(n) ==
    LET q == n \div 100
        r == n % 100
    IN  IF r < 50 THEN q
        ELSE IF r > 50 THEN q + 1
        ELSE IF q % 2 = 0 THEN q ELSE q + 1

\* a bug that would call min() without the key: the earliest year
min_without_key(seq, target) ==
    seq[CHOOSE i \in 1..Len(seq) : \A j \in 1..Len(seq) : seq[i] <= seq[j]]

\* min(seq, key = lambda x: abs(x - target)): the first minimal element
min(seq, target) ==
    LET best == CHOOSE i \in 1..Len(seq) :
                    /\ \A j \in 1..Len(seq) :
                           abs(seq[i] - target) <= abs(seq[j] - target)
                    /\ \A j \in 1..(i - 1) :
                           abs(seq[j] - target) > abs(seq[i] - target)
    IN  seq[best]

----------------------------------------------------------------------------
(* The script *)

normalize_key(key) == strip(lower(key))

CURRENT_YEAR == 2026
DATA_YEAR == 2022

None == [none |-> TRUE]

\* truth value of found_data: None and the empty dict are false
Truthy(d) == d # None /\ DOMAIN d # {}

\* dict operations on a year bucket (a sequence of [key, rec] entries)
HasKey(model_data, k) == \E i \in 1..Len(model_data) : model_data[i].key = k

GetItem(model_data, k) ==
    model_data[CHOOSE i \in 1..Len(model_data) : model_data[i].key = k].rec

RECURSIVE avail_years(_)
avail_years(model_data) ==
    IF Len(model_data) = 0 THEN <<>>
    ELSE LET y == Head(model_data).key
         IN  (IF isdigit(y) THEN <<ParseDigits(y)>> ELSE <<>>)
                 \o avail_years(Tail(model_data))

\* lines 38-53: the exact lookup and the nearest-year fallback
find_data(st, make, model, fuel, target_lookup_year) ==
    IF make \in DOMAIN st /\ model \in DOMAIN st[make]
          /\ fuel \in DOMAIN st[make][model]
    THEN LET model_data == st[make][model][fuel]
             target_str == str(target_lookup_year)
         IN  IF HasKey(model_data, target_str)
             THEN [exc |-> "none", found_data |-> GetItem(model_data, target_str)]
             ELSE LET years == avail_years(model_data)
                  IN  IF Len(years) > 0
                      THEN LET closest_year == min(years, target_lookup_year)
                           IN  IF HasKey(model_data, str(closest_year))
                               THEN [exc |-> "none",
                                     found_data |->
                                        GetItem(model_data, str(closest_year))]
                               ELSE [exc |-> "KeyError", found_data |-> None]
                      ELSE [exc |-> "none", found_data |-> None]
    ELSE [exc |-> "none", found_data |-> None]

Result(e, car, u, m) == [exc |-> e, car |-> car, updated |-> u, missing |-> m]

\* line 59: int(round(avg_price / 100.0)) * 100
new_price_of(avg_price) == round(avg_price) * 100

\* a bug that would assign and count whether or not the price differs
set_price_always(car, new_price) ==
    [car |-> [car EXCEPT !.basicPrice = new_price], updated |-> 1]

\* lines 63-65: assign and count only if the price differs
set_price(car, new_price) ==
    IF new_price # car.basicPrice
    THEN [car |-> [car EXCEPT !.basicPrice = new_price], updated |-> 1]
    ELSE [car |-> car, updated |-> 0]

\* a bug that would enforce the sanity check by raising the list price
sanity_check_enforced(car) ==
    IF car.basicPrice > car.originalListPrice
    THEN [car EXCEPT !.originalListPrice = car.basicPrice]
    ELSE car

\* lines 67-69: the comparison is evaluated and nothing is done about it
sanity_check(car) == IF car.basicPrice > car.originalListPrice THEN car ELSE car

\* a bug that would leave the vehicle out of the missing count
count_missing_forgotten(car) == Result("none", car, 0, 0)

\* lines 71-72: no record found
count_missing(car) == Result("none", car, 0, 1)

\* lines 55-72: reprice the car from the record found, or count it missing
apply_price(car, found_data) ==
    IF Truthy(found_data)
    THEN IF "avgPrice" \notin DOMAIN found_data
         THEN Result("KeyError", car, 0, 0)
         ELSE LET new_price == new_price_of(found_data.avgPrice)
              IN  IF "basicPrice" \notin DOMAIN car
                  THEN Result("KeyError", car, 0, 0)
                  ELSE LET s == set_price(car, new_price)
                       IN  IF "originalListPrice" \notin DOMAIN car
                           THEN Result("KeyError", s.car, s.updated, 0)
                           ELSE Result("none", sanity_check(s.car),
                                       s.updated, 0)
    ELSE count_missing(car)

\* lines 20-72: the body of the for-loop on one car
loop_body(car, st) ==
    IF ~ ({"make", "model", "fuelType"} \subseteq DOMAIN car)
    THEN Result("KeyError", car, 0, 0)
    ELSE LET make == normalize_key(car.make)
             model == normalize_key(car.model)
             fuel == normalize_key(car.fuelType)
         IN  IF "yearOfManufacture" \notin DOMAIN car
             THEN Result("KeyError", car, 0, 0)
             ELSE LET car_year_int == int(car.yearOfManufacture)
                  IN  IF ~ car_year_int.ok
                      THEN Result("ValueError", car, 0, 0)
                      ELSE LET current_age == CURRENT_YEAR - car_year_int.v
                               target_lookup_year == DATA_YEAR - current_age
                               f == find_data(st, make, model, fuel,
                                              target_lookup_year)
                           IN  IF f.exc # "none"
                               THEN Result(f.exc, car, 0, 0)
                               ELSE apply_price(car, f.found_data)

----------------------------------------------------------------------------
(* Input data *)

Ford == <<" ", "F", "o", "r", "d">>
Bmw == <<"b", "m", "w">>
Focus == <<"F", "o", "c", "u", "s">>
Petrol == <<"P", "e", "t", "r", "o", "l", " ">>

IntVal(n) == [t |-> "int", v |-> n]
StrVal(s) == [t |-> "str", v |-> s]

Year2018 == IntVal(2018)
Year2019 == StrVal(<<"2", "0", "1", "9">>)
YearBad == StrVal(<<"2", "0", "x", "8">>)

Fields == {"make", "model", "fuelType", "yearOfManufacture", "basicPrice",
           "originalListPrice"}

Car(mk, yr, bp) ==
    [make |-> mk, model |-> Focus, fuelType |-> Petrol,
     yearOfManufacture |-> yr, basicPrice |-> bp, originalListPrice |-> 6000]

Drop(car, f) == [g \in (DOMAIN car) \ {f} |-> car[g]]

SeqsUpTo(S, n) == UNION {[1..k -> S] : k \in 0..n}

\* year keys of a bucket: three plain years, a zero-padded one, a non-number
PlainYearKeys == {<<"2", "0", "1", "2">>, <<"2", "0", "1", "4">>,
                  <<"2", "0", "1", "6">>}
OtherYearKeys == {<<"0", "2", "0", "1", "6">>, <<"n", "/", "a">>}

EmptyDict == [k \in {} |-> 0]

\* stats records: empty, without avgPrice, and two with avgPrice
StatRecords == {EmptyDict, [count |-> 3], [avgPrice |-> 6450, count |-> 3],
                [avgPrice |-> 5080, count |-> 5]}

\* the script reads a record only under str(year) (lines 46 and 53), so the
\* record under any other key is the same in every bucket
Entries == [key : PlainYearKeys, rec : StatRecords]
               \cup [key : OtherYearKeys, rec : {[avgPrice |-> 6450, count |-> 3]}]

Buckets ==
    {b \in SeqsUpTo(Entries, MaxYears) :
        \A i, j \in 1..Len(b) : i # j => b[i].key # b[j].key}

KFord == <<"f", "o", "r", "d">>
KFocus == <<"f", "o", "c", "u", "s">>
KPetrol == <<"p", "e", "t", "r", "o", "l">>

Dict1(k, v) == [x \in {k} |-> v]

TableOf(b) == Dict1(KFord, Dict1(KFocus, Dict1(KPetrol, b)))

\* tables whose make, model or fuel level is absent
ShallowTables == {EmptyDict, Dict1(KFord, EmptyDict),
                  Dict1(KFord, Dict1(KFocus, EmptyDict))}

\* Spec: two complete cars against every bucket
LookupCars == {Car(Ford, Year2018, 5000), Car(Ford, Year2019, 6400)}
LookupTables == ShallowTables \cup {TableOf(b) : b \in Buckets}

\* SpecCatalog: complete, malformed and incomplete cars against a few tables
CompleteCars ==
    {Car(mk, yr, bp) : mk \in {Ford, Bmw}, yr \in {Year2018, YearBad},
                       bp \in {5000, 6400}}
IncompleteCars ==
    {Drop(Car(mk, Year2018, 5000), f) : mk \in {Ford, Bmw}, f \in Fields}
CatalogCars == CompleteCars \cup IncompleteCars
CatalogTables ==
    ShallowTables \cup
        {TableOf(<<[key |-> <<"2", "0", "1", "4">>,
                    rec |-> [avgPrice |-> 6430, count |-> 7]]>>)}

----------------------------------------------------------------------------
(* The invocation of update_prices() as a state machine *)

NoReport == [updated |-> 0, missing |-> 0, cars |-> <<>>]

InitWith(catalogs, tables) ==
    /\ cars_file \in catalogs
    /\ stats_file \in tables
    /\ cars = <<>>
    /\ stats = EmptyDict
    /\ idx = 1
    /\ updated_count = 0
    /\ missing_count = 0
    /\ pc = "start"
    /\ run = "first"
    /\ writes = 0
    /\ input = <<>>
    /\ exc = "none"
    /\ first = NoReport

Init == InitWith(SeqsUpTo(LookupCars, MaxCars), LookupTables)

InitCatalog == InitWith(SeqsUpTo(CatalogCars, MaxCars), CatalogTables)

\* a bug that would keep the counters of an earlier invocation
LoadKeepingCounters ==
    /\ pc = "start"
    /\ cars' = cars_file
    /\ stats' = stats_file
    /\ input' = cars_file
    /\ idx' = 1
    /\ writes' = 0
    /\ pc' = "loop"
    /\ UNCHANGED <<cars_file, stats_file, run, exc, first, updated_count,
                   missing_count>>

\* lines 11-18: read both files, reset the counters
Load ==
    /\ pc = "start"
    /\ cars' = cars_file
    /\ stats' = stats_file
    /\ input' = cars_file
    /\ updated_count' = 0
    /\ missing_count' = 0
    /\ idx' = 1
    /\ writes' = 0
    /\ pc' = "loop"
    /\ UNCHANGED <<cars_file, stats_file, run, exc, first>>

\* a bug that would write the catalog back after every record
IterateSaving ==
    /\ pc = "loop"
    /\ idx <= Len(cars)
    /\ LET r == loop_body(cars[idx], stats)
       IN  /\ r.exc = "none"
           /\ cars' = [cars EXCEPT ![idx] = r.car]
           /\ updated_count' = updated_count + r.updated
           /\ missing_count' = missing_count + r.missing
    /\ cars_file' = cars'
    /\ idx' = idx + 1
    /\ UNCHANGED <<stats_file, stats, pc, run, writes, input, exc, first>>

\* lines 20-72: one iteration of the for-loop that runs to its end
Iterate ==
    /\ pc = "loop"
    /\ idx <= Len(cars)
    /\ LET r == loop_body(cars[idx], stats)
       IN  /\ r.exc = "none"
           /\ cars' = [cars EXCEPT ![idx] = r.car]
           /\ updated_count' = updated_count + r.updated
           /\ missing_count' = missing_count + r.missing
    /\ idx' = idx + 1
    /\ UNCHANGED <<cars_file, stats_file, stats, pc, run, writes, input, exc,
                   first>>

\* lines 20-72: one iteration that raises; the exception ends the process
Raise ==
    /\ pc = "loop"
    /\ idx <= Len(cars)
    /\ LET r == loop_body(cars[idx], stats)
       IN  /\ r.exc # "none"
           /\ cars' = [cars EXCEPT ![idx] = r.car]
           /\ updated_count' = updated_count + r.updated
           /\ exc' = r.exc
    /\ pc' = "aborted"
    /\ UNCHANGED <<cars_file, stats_file, stats, idx, missing_count, run,
                   writes, input, first>>

\* lines 74-78: report the counters and write the whole catalog back
Dump ==
    /\ pc = "loop"
    /\ idx > Len(cars)
    /\ cars_file' = cars
    /\ writes' = writes + 1
    /\ pc' = "done"
    /\ UNCHANGED <<stats_file, cars, stats, idx, updated_count, missing_count,
                   run, input, exc, first>>

\* the script is invoked a second time on the files the first run left
Rerun ==
    /\ pc = "done"
    /\ run = "first"
    /\ first' = [updated |-> updated_count, missing |-> missing_count,
                 cars |-> cars_file]
    /\ run' = "second"
    /\ writes' = 0
    /\ pc' = "start"
    /\ UNCHANGED <<cars_file, stats_file, cars, stats, idx, updated_count,
                   missing_count, input, exc>>

Next == Load \/ Iterate \/ Raise \/ Dump \/ Rerun

Spec == Init /\ [][Next]_vars

SpecCatalog == InitCatalog /\ [][Next]_vars

TypeOK ==
    /\ pc \in {"start", "loop", "done", "aborted"}
    /\ idx \in 1..(Len(cars) + 1)
    /\ updated_count \in 0..Len(cars)
    /\ missing_count \in 0..Len(cars)

----------------------------------------------------------------------------
(* Vocabulary of the properties *)

Range(f) == {f[x] : x \in DOMAIN f}

Complete(c) == DOMAIN c = Fields

HasKeys(c) == {"make", "model", "fuelType"} \subseteq DOMAIN c

YearOK(c) == "yearOfManufacture" \in DOMAIN c /\ int(c.yearOfManufacture).ok

\* DATA_YEAR - (CURRENT_YEAR - yearOfManufacture) with 2026 and 2022
TargetOf(c) == int(c.yearOfManufacture).v - 4

PathExists(c, st) ==
    /\ HasKeys(c)
    /\ normalize_key(c.make) \in DOMAIN st
    /\ normalize_key(c.model) \in DOMAIN st[normalize_key(c.make)]
    /\ normalize_key(c.fuelType)
           \in DOMAIN st[normalize_key(c.make)][normalize_key(c.model)]

BucketOf(c, st) ==
    st[normalize_key(c.make)][normalize_key(c.model)][normalize_key(c.fuelType)]

HasAvg(rec) == "avgPrice" \in DOMAIN rec

NumericEntries(b) == {e \in Range(b) : isdigit(e.key)}

Dist(e, t) == abs(ParseDigits(e.key) - t)

NearestEntries(b, t) ==
    {e \in NumericEntries(b) : \A e2 \in NumericEntries(b) : Dist(e, t) <= Dist(e2, t)}

\* p is a multiple of 100 nearest to a; of two equally near, the even hundred
NearestHundred(p, a) ==
    /\ p % 100 = 0
    /\ abs(p - a) <= 50
    /\ abs(p - a) = 50 => (p \div 100) % 2 = 0

ExactEntries(c, st) ==
    {e \in Range(BucketOf(c, st)) : e.key = str(TargetOf(c)) /\ HasAvg(e.rec)}

HasExact(c, st) ==
    Complete(c) /\ YearOK(c) /\ PathExists(c, st) /\ ExactEntries(c, st) # {}

NeedsFallback(c, st) ==
    /\ Complete(c) /\ YearOK(c) /\ PathExists(c, st)
    /\ ~ HasKey(BucketOf(c, st), str(TargetOf(c)))
    /\ NumericEntries(BucketOf(c, st)) # {}

Count(S) == Cardinality(S)

----------------------------------------------------------------------------
(* C1: after a completed run, a vehicle whose bucket holds the exact key    *)
(* str(yearOfManufacture - 4) with an avgPrice has that avgPrice rounded to *)
(* the nearest hundred (a half goes to the even hundred) as basicPrice,     *)
(* whatever its previous basicPrice and originalListPrice; alone in the     *)
(* catalog it is reported as updated exactly when the price changed, and    *)
(* never as missing.                                                        *)
C1_ExactYearPrice ==
    pc = "done" =>
        \A i \in 1..Len(input) :
            HasExact(input[i], stats_file) =>
                /\ \A e \in ExactEntries(input[i], stats_file) :
                       NearestHundred(cars_file[i].basicPrice, e.rec.avgPrice)
                /\ Len(input) = 1 =>
                       /\ missing_count = 0
                       /\ updated_count =
                              IF cars_file[i].basicPrice = input[i].basicPrice
                              THEN 0 ELSE 1

C1_Witness ==
    /\ pc = "done"
    /\ run = "first"
    /\ \E i \in 1..Len(input) :
           /\ HasExact(input[i], stats_file)
           /\ cars_file[i].basicPrice # input[i].basicPrice
           /\ cars_file[i].basicPrice > cars_file[i].originalListPrice
           /\ \E e \in ExactEntries(input[i], stats_file) :
                  e.rec.avgPrice % 100 = 50

(* C2: after a completed run, a vehicle whose bucket exists, lacks the      *)
(* exact target year and has numeric year keys, the nearest of which carry  *)
(* an avgPrice, is priced from a numeric year of the bucket than which no   *)
(* numeric year of the bucket is strictly nearer to the target.             *)
C2_NearestYearPrice ==
    pc = "done" =>
        \A i \in 1..Len(input) :
            LET c == input[i]
            IN  (/\ NeedsFallback(c, stats_file)
                 /\ \A e \in NearestEntries(BucketOf(c, stats_file), TargetOf(c)) :
                        HasAvg(e.rec))
                => \E e \in NearestEntries(BucketOf(c, stats_file), TargetOf(c)) :
                       NearestHundred(cars_file[i].basicPrice, e.rec.avgPrice)

\* the nearest year was not the first key of a bucket with two numeric years
C2_Witness ==
    /\ pc = "done"
    /\ run = "first"
    /\ \E i \in 1..Len(input) :
           LET c == input[i]
               b == BucketOf(c, stats_file)
           IN  /\ NeedsFallback(c, stats_file)
               /\ Cardinality(NumericEntries(b)) = 2
               /\ Cardinality(NearestEntries(b, TargetOf(c))) = 1
               /\ b[1] \notin NearestEntries(b, TargetOf(c))
               /\ \A e \in NearestEntries(b, TargetOf(c)) : HasAvg(e.rec)
               /\ cars_file[i].basicPrice # input[i].basicPrice

(* C3: the price a completed run gives a vehicle in the nearest-year        *)
(* fallback (the nearest years' records carrying an avgPrice) is the price  *)
(* the loop body computes for it from the same bucket with its keys listed  *)
(* in any other order: a tie between two equally near years is broken by a  *)
(* fixed rule.                                                              *)
Reorderings(b) ==
    {b2 \in [1..Len(b) -> Range(b)] : Range(b2) = Range(b)}

WithBucket(c, st, b2) ==
    [st EXCEPT ![normalize_key(c.make)][normalize_key(c.model)]
                   [normalize_key(c.fuelType)] = b2]

C3_OrderIndependent ==
    (pc = "done" /\ run = "first") =>
        \A i \in 1..Len(input) :
            LET c == input[i]
            IN  (/\ NeedsFallback(c, stats_file)
                 /\ \A e \in NearestEntries(BucketOf(c, stats_file), TargetOf(c)) :
                        HasAvg(e.rec))
                => \A b2 \in Reorderings(BucketOf(c, stats_file)) :
                        LET r == loop_body(c, WithBucket(c, stats_file, b2))
                        IN  r.exc = "none" =>
                                r.car.basicPrice = cars_file[i].basicPrice

(* C4: an iteration that completes on a vehicle whose make, model or fuel   *)
(* type has no entry in the table leaves the vehicle as it was, adds        *)
(* exactly 1 to missing and nothing to updated.                             *)
C4_NoEntryIsMissing ==
    [][(/\ pc = "loop"
        /\ idx <= Len(cars)
        /\ idx' = idx + 1
        /\ HasKeys(cars[idx])
        /\ ~ PathExists(cars[idx], stats))
       => (/\ cars' = cars
           /\ missing_count' = missing_count + 1
           /\ updated_count' = updated_count)]_vars

\* a vehicle without entry was counted next to one that was repriced
C4_Witness ==
    /\ pc = "done"
    /\ run = "first"
    /\ missing_count = 1
    /\ updated_count = 1
    /\ \E i \in 1..Len(input) :
           HasKeys(input[i]) /\ ~ PathExists(input[i], stats)

(* C5: a second run on the catalog the first run wrote, with the same       *)
(* table, reports updated = 0 and the first run's missing count and writes  *)
(* the catalog the first run wrote.                                         *)
C5_Idempotent ==
    (run = "second" /\ pc = "done") =>
        /\ updated_count = 0
        /\ missing_count = first.missing
        /\ cars_file = first.cars

C5_Witness ==
    /\ run = "second"
    /\ pc = "done"
    /\ first.updated > 0
    /\ first.missing > 0

(* C6: the catalog a completed run wrote has as many records as the one it  *)
(* read, each at its position with every field but basicPrice as read, and  *)
(* the table in memory is the table of the file.                            *)
C6_Frame ==
    /\ pc # "start" => stats = stats_file
    /\ pc = "done" =>
           /\ Len(cars_file) = Len(input)
           /\ \A i \in 1..Len(input) :
                  /\ DOMAIN cars_file[i] = DOMAIN input[i]
                  /\ \A f \in (DOMAIN input[i]) \ {"basicPrice"} :
                         cars_file[i][f] = input[i][f]

\* two different vehicles, one repriced above its list price
C6_Witness ==
    /\ pc = "done"
    /\ run = "first"
    /\ Len(input) = 2
    /\ input[1] # input[2]
    /\ cars_file # input
    /\ \E i \in 1..Len(input) :
           /\ Complete(cars_file[i])
           /\ cars_file[i].basicPrice # input[i].basicPrice
           /\ cars_file[i].basicPrice > cars_file[i].originalListPrice

(* C7: no run completes on a catalog one of whose records lacks a required  *)
(* field.                                                                   *)
C7_IncompleteAborts ==
    pc = "done" => \A i \in 1..Len(input) : Complete(input[i])

(* C8: the catalog file is written at most once per run, only after the     *)
(* last record; until then, and for good when the run aborts, the file is   *)
(* the catalog the run read.                                                *)
C8_WriteOnceAtEnd ==
    /\ writes <= 1
    /\ writes = 1 => (pc = "done" /\ idx = Len(cars) + 1)
    /\ pc \in {"loop", "aborted"} => (writes = 0 /\ cars_file = input)

\* the run aborted after it had repriced an earlier record in memory
C8_Witness ==
    /\ pc = "aborted"
    /\ idx = 2
    /\ cars[1] # input[1]
    /\ cars_file = input

(* C9: no shape of the statistics table aborts a run: a run aborts only on  *)
(* a vehicle that lacks a field or whose year does not convert.             *)
C9_TableNeverAborts ==
    pc = "aborted" => ~ (Complete(cars[idx]) /\ YearOK(cars[idx]))

(* C10: while the loop is between records and after it, with k records      *)
(* processed: updated + missing <= k, updated counts the processed records  *)
(* whose basicPrice differs from the one read, missing counts the processed *)
(* records for which the lookup found no record (none, or an empty one),    *)
(* no record is in both classes, and a changed basicPrice is a multiple of  *)
(* 100.                                                                     *)
Changed(i) ==
    IF "basicPrice" \in DOMAIN input[i]
    THEN cars[i].basicPrice # input[i].basicPrice
    ELSE cars[i] # input[i]

NothingFound(c, st) ==
    LET t == TargetOf(c)
        b == BucketOf(c, st)
    IN  \/ ~ PathExists(c, st)
        \/ \E e \in Range(b) : e.key = str(t) /\ e.rec = EmptyDict
        \/ /\ ~ HasKey(b, str(t))
           /\ \/ NumericEntries(b) = {}
              \/ \E j \in 1..Len(b) :
                     /\ b[j] \in NearestEntries(b, t)
                     /\ \A h \in 1..(j - 1) : b[h] \notin NearestEntries(b, t)
                     /\ GetItem(b, str(ParseDigits(b[j].key))) = EmptyDict

C10_Counters ==
    pc \in {"loop", "done"} =>
        LET k == idx - 1
            changed == {i \in 1..k : Changed(i)}
            nothing == {i \in 1..k : NothingFound(input[i], stats)}
        IN  /\ updated_count + missing_count <= k
            /\ updated_count = Count(changed)
            /\ missing_count = Count(nothing)
            /\ changed \cap nothing = {}
            /\ \A i \in changed : cars[i].basicPrice % 100 = 0

\* two records processed: one found and unchanged, one updated or missing
C10_Witness ==
    /\ pc = "loop"
    /\ idx = 3
    /\ updated_count + missing_count = 1
    /\ \E i \in 1..2 : ~ Changed(i) /\ ~ NothingFound(input[i], stats)

====
